---- MODULE Spec2Model ----
(***************************************************************************)
(* State-machine model of the WhatsApp sales-intelligence analysis run:    *)
(* ChatService.processChatsBatch (cache-aside transcript loading),         *)
(* AIAnalyzer.analyzeConversationsBatch (chunked AI analysis with the      *)
(* incremental save callback), DatabaseService.bulkInsertAnalysisResults   *)
(* (transactional upsert) and WhatsAppSalesIntelligence.runAnalysis.       *)
(*                                                                         *)
(* Every async function is split at its await points; everything between   *)
(* two awaits is one atomic step of the single JavaScript event loop.      *)
(***************************************************************************)
EXTENDS Integers, Sequences, FiniteSets, TLC

\* ---------------------------------------------------------------- bounds
\* Number of rows of the "Chat" table (individual chats, ids 1..NumChats).
NumChats == 3
\* Chunk widths explored for the batchSize parameter of both batch functions.
MaxWidth == 2
\* Chunks per incremental save.  The source sets 50 (aiAnalyzer SAVE_INTERVAL);
\* the model keeps the code and scales the interval so that interval saves
\* happen within NumChats items.
SAVE_INTERVAL == 2
\* Error cap of bulkInsertAnalysisResults.  The source aborts when
\* errorCount > 50; the model keeps the comparison and scales the cap.
MAX_ERRORS == 2
\* Longest batch handed to bulkInsertAnalysisResults by the store-only
\* specification SpecStore.
MaxBatch == 4
\* SpecProbe: the longest string drawn, and the widths of the VARCHAR columns
\* product_category (200 in the schema), ai_model_used (50), remoteJid (100).
MaxValueLen == 6
MaxCategoryLen == 5
MaxModelLen == 3
MaxJidLen == 4
\* SpecProbe: the longest message list drawn, the default of the maxMessages
\* parameter of buildConversationString (200 in the source), and the largest
\* MAX_CONVERSATION_LENGTH drawn.
MaxMessages == 4
DefaultWindow == 2
MaxConfigured == 3

ChatIds == 1..NumChats
\* One more row of "Chat" is a group chat (its remoteJid ends in @g.us).
GroupIds == {NumChats + 1}

\* ------------------------------------------------------------ JS helpers
\* The elements of a sequence, as a set.
Range(s) == {s[k] : k \in DOMAIN s}

\* The ascending sequence of a finite set of integers.
RECURSIVE SortedSeq(_)
SortedSeq(S) ==
  IF S = {} THEN <<>>
  ELSE LET m == CHOOSE x \in S : \A y \in S : x <= y
       IN  <<m>> \o SortedSeq(S \ {m})

\* Variant: the test without trim().
IsBlankNoTrim(conversation) == conversation \in {"unset", ""}

\* A transcript is abstracted to what the code looks at: whether
\* `!conversation || conversation.trim() === ''` holds ("unset" is the
\* JavaScript undefined).
IsBlank(conversation) == conversation \in {"unset", "", " "}

\* --------------------------------------------------------- AIAnalyzer
\* What the OpenAI call of one conversation does.  "valid": a JSON object
\* the table accepts; "overflow": a JSON object whose analysis_confidence
\* (e.g. 85) does not fit DECIMAL(3,2); "negative": one whose
\* analysis_confidence is below 0; "unscored": one without a (truthy)
\* analysis_confidence; "badtype": a JSON object whose
\* quantity_mentioned is an object without a callable toString, on which
\* parseInt throws; "quota" / "transient": the request rejects; "malformed":
\* JSON.parse throws.
AIOutcomes ==
  {"valid", "overflow", "negative", "unscored", "badtype",
   "quota", "transient", "malformed"}
AIFailures == {"quota", "transient", "malformed"}
\* The outcomes drawn for the calls of a whole run: one of each kind the run
\* treats differently (a stored row, a rejected row, a quota failure, another
\* failure).  "malformed" takes the path of "transient" and "badtype" matters
\* to bulkInsertAnalysisResults alone; SpecStore draws them.
RunAIOutcomes == {"valid", "overflow", "quota", "transient"}

\* The analysis_confidence of the parsed response, in hundredths as every
\* confidence of the model: 0.9 for a valid answer, 85 (a percentage) for
\* "overflow", -0.5 for "negative"; 0 stands for the falsy values of
\* "unscored" (the field omitted, null, or 0).
analysis_confidence(ai) ==
  CASE ai = "overflow" -> 8500
    [] ai = "negative" -> -50
    [] ai = "unscored" -> 0
    [] OTHER -> 90

\* Confidence values in hundredths.
getEmptyAnalysis(remoteJid) ==
  [ remoteJid          |-> remoteJid,
    product_category   |-> "No Product Mentioned",
    quantity_mentioned |-> "null",
    analysisConfidence |-> 30,
    aiModelUsed        |-> "unset",
    error              |-> "unset",
    errorCode          |-> "unset",
    analysisSuccess    |-> "unset" ]

\* Variant: the catch block returns the empty analysis without recording the
\* error.
analyzeSalesConversationBare(conversation, remoteJid, ai) ==
  IF IsBlank(conversation) \/ ai \in AIFailures
  THEN getEmptyAnalysis(remoteJid)
  ELSE [ getEmptyAnalysis(remoteJid) EXCEPT
           !.product_category = "Apple Products",
           !.quantity_mentioned = IF ai = "badtype" THEN "object" ELSE "1",
           !.analysisConfidence = IF ai = "overflow" THEN 8500 ELSE 90,
           !.aiModelUsed = "gpt-3.5-turbo" ]

\* analyzeSalesConversation(conversation, remoteJid), with the behaviour of
\* the external call given as `ai`.  The function has no throwing path: the
\* request and JSON.parse sit inside try/catch, and the catch returns a value.
analyzeSalesConversation(conversation, remoteJid, ai) ==
  IF IsBlank(conversation)
  THEN getEmptyAnalysis(remoteJid)
  ELSE IF ai \in AIFailures
       THEN [ getEmptyAnalysis(remoteJid) EXCEPT
                !.analysisConfidence = 10,
                !.aiModelUsed = "error",
                !.error = ai ]
       ELSE [ getEmptyAnalysis(remoteJid) EXCEPT
                !.product_category = "Apple Products",
                !.quantity_mentioned = IF ai = "badtype" THEN "object" ELSE "1",
                !.analysisConfidence = IF analysis_confidence(ai) = 0
                                       THEN 80
                                       ELSE analysis_confidence(ai),
                !.aiModelUsed = "gpt-3.5-turbo" ]

\* Whether analyzeSalesConversation rejects.  Nothing escapes lines 16-65.
analyzeThrows(conversation, ai) == FALSE

\* Whether the worker of analyzeConversationsBatch reaches the external call.
CallsAI(data) ==
  /\ data.error = "unset"
  /\ data.hasMessages
  /\ ~IsBlank(data.conversation)

\* One worker of analyzeConversationsBatch (the async arrow function mapped
\* over the chunk): the value its promise resolves to.
AnalyzeTask(data, ai) ==
  IF data.error # "unset" \/ ~data.hasMessages
  THEN getEmptyAnalysis(data.remoteJid)
  ELSE IF analyzeThrows(data.conversation, ai)
       THEN [ getEmptyAnalysis(data.remoteJid) EXCEPT
                !.error = ai,
                !.errorCode = IF ai = "quota" THEN "insufficient_quota" ELSE "unknown",
                !.analysisSuccess = "false" ]
       ELSE [ analyzeSalesConversation(data.conversation, data.remoteJid, ai) EXCEPT
                !.analysisSuccess = "true" ]

\* Variant: the filters let every result through.
SuccessfulAlways(result) == TRUE

\* The truthiness test `result.analysisSuccess` of the filters.
Successful(result) == result.analysisSuccess = "true"

\* accumulatedForSave.filter(result => result.analysisSuccess)
SuccessfulOf(rs) == SelectSeq(rs, Successful)

\* ------------------------------------------------------ DatabaseService
\* Whether prepareInsertValues(result) throws: toInteger calls parseInt, which
\* throws a TypeError on an object that cannot be converted to a primitive.
PrepareThrows(result) == result.quantity_mentioned = "object"

\* prepareInsertValues(result): the column values of the INSERT.  Timestamps
\* (analysis_time, UPDATED_AT) are left out: every write refreshes them and
\* nothing reads them.
prepareInsertValues(result) ==
  [ remoteJid           |-> result.remoteJid,
    product_category    |-> result.product_category,
    analysis_confidence |-> IF result.analysisConfidence = 0
                            THEN 50 ELSE result.analysisConfidence,
    ai_model_used       |-> IF result.aiModelUsed = "unset"
                            THEN "gpt-3.5-turbo" ELSE result.aiModelUsed ]

\* Whether PostgreSQL rejects the row: analysis_confidence is DECIMAL(3,2),
\* so an absolute value of 10 or more is a numeric overflow.
ViolatesConstraint(values) ==
  \/ values.analysis_confidence >= 1000
  \/ values.analysis_confidence <= -1000

\* Variant: ON CONFLICT ("remoteJid") DO NOTHING, which keeps the old row.
UpsertDoNothing(table, values) ==
  IF \E r \in table : r.remoteJid = values.remoteJid
  THEN table
  ELSE table \cup {values}

\* INSERT ... ON CONFLICT ("remoteJid") DO UPDATE SET <every column> =
\* EXCLUDED.<column>, on a table given as its set of rows.
Upsert(table, values) ==
  {r \in table : r.remoteJid # values.remoteJid} \cup {values}

\* Variant: the transaction does not see the committed rows, so its COMMIT
\* replaces the table.
LoopStartEmpty(table) ==
  [ tx |-> {}, txAborted |-> FALSE, successCount |-> 0, errorCount |-> 0,
    errors |-> <<>>, threw |-> FALSE, written |-> <<>> ]

\* The locals of bulkInsertAnalysisResults after BEGIN on `table`: the
\* transaction's view of the table, whether PostgreSQL has put the
\* transaction in the aborted state, the counters, the errors array, whether
\* 'Too many insertion errors' was thrown, and (history) the values whose
\* INSERT succeeded.
LoopStart(table) ==
  [ tx |-> table, txAborted |-> FALSE, successCount |-> 0, errorCount |-> 0,
    errors |-> <<>>, threw |-> FALSE, written |-> <<>> ]

\* Variant: the cap test off by one (>= instead of >).
TooManyErrorsAtCap(errorCount) == errorCount >= MAX_ERRORS

\* `if (errorCount > 50)` of the catch block, with the cap scaled.
TooManyErrors(errorCount) == errorCount > MAX_ERRORS

\* One iteration of the for loop of bulkInsertAnalysisResults, for `result`.
\* PostgreSQL semantics of the client's transaction: a statement that fails
\* puts the transaction in the aborted state, in which every later statement
\* fails too; an error thrown before the statement is sent
\* (prepareInsertValues) leaves the transaction as it is.
InsertStep(loop, result) ==
  LET values == prepareInsertValues(result)
      failed == \/ PrepareThrows(result)
                \/ loop.txAborted
                \/ ViolatesConstraint(values)
      count  == loop.errorCount + 1
  IN  IF ~failed
      THEN [ loop EXCEPT !.tx = Upsert(loop.tx, values),
                         !.successCount = @ + 1,
                         !.written = Append(@, values) ]
      ELSE [ loop EXCEPT !.txAborted = @ \/ ~PrepareThrows(result),
                         !.errors = Append(@, result.remoteJid),
                         !.errorCount = count,
                         !.threw = TooManyErrors(count) ]

\* The loop over analysisResults[1..n]; it is left when the cap is exceeded.
RECURSIVE InsertLoop(_, _, _)
InsertLoop(table, analysisResults, n) ==
  IF n = 0
  THEN LoopStart(table)
  ELSE LET prev == InsertLoop(table, analysisResults, n - 1)
       IN  IF prev.threw THEN prev ELSE InsertStep(prev, analysisResults[n])

\* The end of bulkInsertAnalysisResults for n = analysisResults.length rows:
\* the returned summary and the committed table.  After a throw the catch
\* block issues ROLLBACK and reports every row as failed; otherwise COMMIT is
\* issued, which PostgreSQL executes as a ROLLBACK, without an error, when
\* the transaction is in the aborted state.
InsertReturn(table, loop, n) ==
  IF loop.threw
  THEN [ success |-> 0, failed |-> n,
         errors |-> <<"Too many insertion errors">>, table |-> table,
         path |-> "rollback" ]
  ELSE [ success |-> loop.successCount, failed |-> loop.errorCount,
         errors |-> loop.errors,
         table |-> IF loop.txAborted THEN table ELSE loop.tx,
         path |-> "commit" ]

\* bulkInsertAnalysisResults(analysisResults) on the committed table, with a
\* connection obtained.
bulkInsertAnalysisResults(table, analysisResults) ==
  IF Len(analysisResults) = 0
  THEN [ success |-> 0, failed |-> 0, errors |-> <<>>, table |-> table,
         path |-> "empty" ]
  ELSE InsertReturn(table,
                    InsertLoop(table, analysisResults, Len(analysisResults)),
                    Len(analysisResults))

\* ---------------------------------------------------------- ChatService
\* What getMessagesForChat yields for one chat: "error": the query rejects;
\* "none": no message rows; "blank": rows whose rendered text is empty
\* (conversation messages without text); "text": rows that render to text.
LoadOutcomes == {"error", "none", "blank", "text"}

\* One worker of processChatsBatch (the async arrow function mapped over
\* the chunk): the value its promise resolves to.
LoadTask(chat_id, load) ==
  IF load = "error"
  THEN [ remoteJid |-> chat_id, conversation |-> "unset", hasMessages |-> FALSE,
         error |-> "load", fromCache |-> FALSE ]
  ELSE [ remoteJid |-> chat_id,
         conversation |-> IF load = "text" THEN "text" ELSE "",
         hasMessages |-> load # "none",
         error |-> "unset", fromCache |-> FALSE ]

\* Variant: a cached conversation is returned as one without messages.
CachedResultNoMessages(row) ==
  [ remoteJid |-> row.remoteJid, conversation |-> row.conversation_text,
    hasMessages |-> FALSE, error |-> "unset", fromCache |-> TRUE ]

\* The cachedResults entry built from a "ConversationCache" row.
CachedResult(row) ==
  [ remoteJid |-> row.remoteJid, conversation |-> row.conversation_text,
    hasMessages |-> TRUE, error |-> "unset", fromCache |-> TRUE ]

\* Variant: the statement writes no row.
CacheUpsertNothing(table, conv) == table

\* INSERT INTO "ConversationCache" ... ON CONFLICT ("remoteJid") DO UPDATE.
CacheUpsert(table, conv) ==
  {r \in table : r.remoteJid # conv.remoteJid}
    \cup {[remoteJid |-> conv.remoteJid, conversation_text |-> conv.conversation]}

\* Variant: the loop caches every conversation, empty transcripts too.
RECURSIVE CacheLoopAll(_, _, _)
CacheLoopAll(table, conversations, n) ==
  IF n = 0 THEN table
  ELSE CacheUpsert(CacheLoopAll(table, conversations, n - 1), conversations[n])

\* The loop of saveConversationsToCache over conversations[1..n]: rows with
\* an empty transcript are skipped.
RECURSIVE CacheLoop(_, _, _)
CacheLoop(table, conversations, n) ==
  IF n = 0 THEN table
  ELSE LET prev == CacheLoop(table, conversations, n - 1)
           conv == conversations[n]
       IN  IF ~IsBlank(conv.conversation) THEN CacheUpsert(prev, conv) ELSE prev

\* Variant: the query without its NOT EXISTS condition.
getUnanalyzedChatsAll(table) ==
  SortedSeq({c \in ChatIds \cup GroupIds : c \notin GroupIds})

\* getUnanalyzedChats: the chats without a "SalesAnalysisReport" row.  The
\* ORDER BY "updatedAt" is fixed to the order of the ids.
getUnanalyzedChats(table) ==
  SortedSeq({c \in ChatIds \cup GroupIds :
               /\ c \notin GroupIds
               /\ \A r \in table : r.remoteJid # c})

\* ------------------------------------------------------------------ state
VARIABLES
  checkedOut,         \* clients of the pg pool obtained and not yet released
  env,                \* process.env: whether OPENAI_API_KEY is set
  probe,              \* SpecProbe: a function call, its arguments and its value
  cacheLog,           \* history: the "ConversationCache" operations of this run
  outOfOrder,         \* history: a worker of the analysis chunk finished
                      \* before one of an earlier position
  pc,                 \* control point of the run (main / runAnalysis)
  store,              \* rows of "SalesAnalysisReport"
  cache,              \* rows of "ConversationCache"
  batchSize,          \* batchSize parameter of the running batch function
  i,                  \* loop offset of the running batch function
  inflight,           \* positions of the chunk whose promise is pending
  chunkRes,           \* position -> value of the resolved promises of the chunk
  unanalyzedChats,    \* runAnalysis: result of getUnanalyzedChats
  chatsToProcess,     \* processChatsBatch: cache misses
  conversationData,   \* processChatsBatch: results
  newConversations,   \* processChatsBatch: collected for caching
  validConversations, \* runAnalysis: input of analyzeConversationsBatch
  results,            \* analyzeConversationsBatch: results
  accumulatedForSave, \* analyzeConversationsBatch: checkpoint accumulator
  batchNumber,        \* analyzeConversationsBatch: chunks started
  pendingSave,        \* argument and site of the awaited incrementalSaveCallback
  totalSaved,         \* runAnalysis: closure variable of the callback
  saveAttempts,       \* runAnalysis: closure variable of the callback
  report,             \* the FINAL ANALYSIS SUMMARY printed by runAnalysis
  aiLog,              \* history: chat -> what its OpenAI call did in this run
  flushLog,           \* history: the calls of incrementalSaveCallback of this run
  call,               \* SpecStore: the bulkInsertAnalysisResults call under way
  lastWrite           \* history: the report rows as the last committed call of
                      \* SpecStore left them (in a run: as they were at the start)

vars == << checkedOut, env, probe, cacheLog, outOfOrder, pc, store, cache, batchSize, i, inflight, chunkRes, unanalyzedChats,
           chatsToProcess, conversationData, newConversations, validConversations,
           results, accumulatedForSave, batchNumber, pendingSave, totalSaved,
           saveAttempts, report, aiLog, flushLog, call, lastWrite >>

\* `const client = await getClient()`: pool.connect() resolves with a client
\* ("ok") or rejects ("down"); the number of clients the call obtains.
Obtained(conn) == IF conn = "ok" THEN 1 ELSE 0

\* Variant: the client is released as the last statement of the try block
\* and of the catch block.
ReleasedOnReturn(conn, path) ==
  IF conn = "ok" /\ path \in {"commit", "rollback"} THEN 1 ELSE 0

\* `finally { client.release(); }` of bulkInsertAnalysisResults and of
\* saveConversationsToCache: the number of releases of a call that obtained
\* its client or not (conn) and whose try block returned after COMMIT
\* ("commit"), threw and was rolled back ("rollback"), or threw with the
\* ROLLBACK of the catch block rejecting too ("rollbackFails").  The try
\* statement is entered only with a client, and its finally block runs on
\* each of the three ways out.
Released(conn, path) == IF conn = "ok" THEN 1 ELSE 0

NoSave == [site |-> "none", batch |-> <<>>]
NoCall == [phase |-> "idle", rows |-> <<>>, n |-> 0, loop |-> LoopStart({}),
           result |-> [success |-> 0, failed |-> 0, errors |-> <<>>, path |-> "none"]]
NoReport == [outcome |-> "none", totalAnalyzed |-> 0, successfulAnalyses |-> 0,
             quotaFailures |-> 0, otherErrors |-> 0, totalSaved |-> 0]

\* No function has been called on its own.
NoProbe == [fn |-> "none"]

\* The locals of a run before it starts.
FreshRun ==
  /\ batchSize = 0
  /\ i = 0
  /\ inflight = {}
  /\ chunkRes = <<>>
  /\ unanalyzedChats = <<>>
  /\ chatsToProcess = <<>>
  /\ conversationData = <<>>
  /\ newConversations = <<>>
  /\ validConversations = <<>>
  /\ results = <<>>
  /\ accumulatedForSave = <<>>
  /\ batchNumber = 0
  /\ pendingSave = NoSave
  /\ totalSaved = 0
  /\ saveAttempts = 0
  /\ report = NoReport
  /\ aiLog = [c \in ChatIds |-> "nocall"]
  /\ flushLog = <<>>
  /\ cacheLog = <<>>
  /\ outOfOrder = FALSE

\* The tables as earlier runs can have left them: a report row for the
\* chats of `analyzed` (written from a valid analysis) and a cache row for
\* the chats of `cached` (only transcripts with text are ever cached).  A
\* chat can be cached and not analyzed (its save failed), analyzed and not
\* cached (its cache write failed), both or neither.  The chat that can
\* have a cache row at the start is the first; the others get theirs from
\* the run.
CachedIds == {1}
ReportRowOf(c) ==
  prepareInsertValues(analyzeSalesConversation("text", c, "valid"))
CacheRowOf(c) == [remoteJid |-> c, conversation_text |-> "text"]

\* The process starts (main) on the database left by the earlier runs.
Init ==
  /\ pc = "start"
  /\ \E key \in {"set", "unset"} : env = [OPENAI_API_KEY |-> key]
  /\ \E analyzed \in {{}, {1}} : store = {ReportRowOf(c) : c \in analyzed}
  /\ \E cached \in SUBSET CachedIds : cache = {CacheRowOf(c) : c \in cached}
  /\ FreshRun
  /\ call = NoCall
  /\ lastWrite = store
  /\ probe = NoProbe
  /\ checkedOut = 0

\* Variant: the loop does not advance.
NextOffsetStuck(offset, width) == offset

\* `i += batchSize` of the two for loops.
NextOffset(offset, width) == offset + width

\* The positions of conversationData.slice(i, i + batchSize) in a list of
\* length n.
ChunkPositions(offset, width, n) ==
  { k \in 1..n : offset < k /\ k <= offset + width }

\* Variant: the loop goes on without awaiting the promises of the chunk.
NotAwaited(pending) == TRUE

\* Variant: the resolved values in the reverse of the input order.
BatchResultsReversed(resolved) ==
  LET order == SortedSeq(DOMAIN resolved)
  IN  [ j \in 1..Len(order) |-> resolved[order[Len(order) + 1 - j]] ]

\* Variant: the last resolved value of the chunk is lost.
BatchResultsDropLast(resolved) ==
  LET order == SortedSeq(DOMAIN resolved)
  IN  [ j \in 1..(Len(order) - 1) |-> resolved[order[j]] ]

\* await Promise.all(batchPromises) resumes when no promise of the chunk is
\* pending (no worker rejects: each catches its own errors).
AllSettled(pending) == pending = {}

\* The value of Promise.all: the resolved values in input order.
BatchResults(resolved) ==
  LET order == SortedSeq(DOMAIN resolved)
  IN  [ j \in 1..Len(order) |-> resolved[order[j]] ]

\* ------------------------------------------------- initialize
\* Variant: initialize() without the test of the key.
initializeOkNoKeyTest(schemaOk, apiKey) == schemaOk

\* Whether initialize() returns instead of throwing: the schema query
\* resolved and `!process.env.OPENAI_API_KEY` is false.
initializeOk(schemaOk, apiKey) == schemaOk /\ apiKey \notin {"unset", ""}

\* initialize(): initializeSchema runs schemas.sql (CREATE ... IF NOT EXISTS,
\* which leaves the rows of the tables alone) and rethrows when the query
\* rejects; then a missing OPENAI_API_KEY throws.  main catches either error
\* and exits with status 1 before runAnalysis is called.
Initialize ==
  /\ pc = "start"
  /\ \E schemaOk \in BOOLEAN :
       pc' = IF initializeOk(schemaOk, env.OPENAI_API_KEY) THEN "idle" ELSE "aborted"
  /\ UNCHANGED << checkedOut, env, outOfOrder, probe, cacheLog, call, lastWrite, store, cache, batchSize, i, inflight,
                  chunkRes, unanalyzedChats, chatsToProcess, conversationData,
                  newConversations, validConversations, results,
                  accumulatedForSave, batchNumber, pendingSave, totalSaved,
                  saveAttempts, report, aiLog, flushLog >>

\* ------------------------------------------------- runAnalysis, step 1
\* getUnanalyzedChats resolves (or rejects: runAnalysis rethrows and main
\* exits with status 1).  An empty list ends the run.
GetUnanalyzedChats ==
  /\ pc = "idle"
  /\ \E queryOk \in BOOLEAN :
       LET chats == getUnanalyzedChats(store)
       IN  IF ~queryOk
           THEN /\ pc' = "failed"
                /\ UNCHANGED << unanalyzedChats, batchSize, report >>
           ELSE IF Len(chats) = 0
           THEN /\ pc' = "done"
                /\ report' = [report EXCEPT !.outcome = "noChats"]
                /\ UNCHANGED << unanalyzedChats, batchSize >>
           ELSE /\ pc' = "cacheCheck"
                /\ unanalyzedChats' = chats
                /\ \E w \in 1..MaxWidth : batchSize' = w
                /\ UNCHANGED report
  /\ UNCHANGED << checkedOut, env, outOfOrder, probe, cacheLog, call, lastWrite, store, cache, i, inflight, chunkRes, chatsToProcess,
                  conversationData, newConversations, validConversations, results,
                  accumulatedForSave, batchNumber, pendingSave, totalSaved,
                  saveAttempts, aiLog, flushLog >>

\* ------------------------------------------------- processChatsBatch
\* cachedConversations.has(chat.chat_id).
CacheHas(cachedConversations, c) ==
  \E r \in cachedConversations : r.remoteJid = c

\* Variant: every chat is sent to the loaders, cached or not.
CacheMissesAll(chats, cachedConversations) == chats

\* The chatsToProcess list: the chats the cache lookup did not return.
CacheMisses(chats, cachedConversations) ==
  SelectSeq(chats, LAMBDA c : ~CacheHas(cachedConversations, c))

\* Variant: the rows are returned whether the query resolved or not.
getCachedConversationsAnyway(rows, readOk) == rows

\* getCachedConversations called with every remoteJid of the batch: the rows
\* of the cache when the query resolves, `new Map()` from the catch block
\* when it rejects.
getCachedConversations(rows, readOk) == IF readOk THEN rows ELSE {}

\* getCachedConversations resolves (an empty Map when the query rejects);
\* the chats are split into cached results and chats to process.
CheckCache ==
  /\ pc = "cacheCheck"
  /\ \E readOk \in BOOLEAN :
       LET cachedConversations == getCachedConversations(cache, readOk)
           has(c)  == CacheHas(cachedConversations, c)
           get(c)  == CHOOSE r \in cachedConversations : r.remoteJid = c
           hits    == SelectSeq(unanalyzedChats, has)
           misses  == CacheMisses(unanalyzedChats, cachedConversations)
       IN  /\ conversationData' = [ j \in 1..Len(hits) |-> CachedResult(get(hits[j])) ]
           /\ chatsToProcess' = IF Len(misses) > 0 THEN misses ELSE <<>>
           /\ pc' = IF Len(misses) > 0 THEN "loadChunk" ELSE "processed"
           /\ cacheLog' = Append(cacheLog, IF readOk THEN "read" ELSE "readFailed")
  /\ i' = 0
  /\ newConversations' = <<>>
  /\ UNCHANGED << checkedOut, env, outOfOrder, probe, call, lastWrite, store, cache, batchSize, inflight, chunkRes, unanalyzedChats,
                  validConversations, results, accumulatedForSave, batchNumber,
                  pendingSave, totalSaved, saveAttempts, report, aiLog, flushLog >>

\* batch.map(async chat => ...): every worker of the chunk is started.
LaunchLoadChunk ==
  /\ pc = "loadChunk"
  /\ inflight' = ChunkPositions(i, batchSize, Len(chatsToProcess))
  /\ chunkRes' = <<>>
  /\ pc' = "loading"
  /\ UNCHANGED << checkedOut, env, outOfOrder, probe, cacheLog, call, lastWrite, store, cache, batchSize, i, unanalyzedChats, chatsToProcess,
                  conversationData, newConversations, validConversations, results,
                  accumulatedForSave, batchNumber, pendingSave, totalSaved,
                  saveAttempts, report, aiLog, flushLog >>

\* The worker of position k resumes after getMessagesForChat and finishes:
\* it pushes its result on newConversations when the chat has messages.
LoadItem(k) ==
  /\ pc = "loading"
  /\ k \in inflight
  /\ \E load \in LoadOutcomes :
       LET result == LoadTask(chatsToProcess[k], load)
       IN  /\ chunkRes' = chunkRes @@ (k :> result)
           /\ newConversations' = IF result.hasMessages
                                  THEN Append(newConversations, result)
                                  ELSE newConversations
  /\ inflight' = inflight \ {k}
  /\ UNCHANGED << checkedOut, env, outOfOrder, probe, cacheLog, call, lastWrite, pc, store, cache, batchSize, i, unanalyzedChats, chatsToProcess,
                  conversationData, validConversations, results,
                  accumulatedForSave, batchNumber, pendingSave, totalSaved,
                  saveAttempts, report, aiLog, flushLog >>

\* Promise.all resolves; the results are appended; the loop goes on after
\* its delay, or ends and the function saves the cache or returns (its
\* locals chatsToProcess and newConversations then go out of scope).
LoadBarrier ==
  /\ pc = "loading"
  /\ AllSettled(inflight)
  /\ conversationData' = conversationData \o BatchResults(chunkRes)
  /\ chunkRes' = <<>>
  /\ IF i + batchSize < Len(chatsToProcess)
     THEN /\ i' = NextOffset(i, batchSize)
          /\ pc' = "loadChunk"
          /\ UNCHANGED << chatsToProcess, newConversations >>
     ELSE IF Len(newConversations) > 0
     THEN /\ i' = i
          /\ pc' = "cacheSave"
          /\ UNCHANGED << chatsToProcess, newConversations >>
     ELSE /\ i' = 0
          /\ pc' = "processed"
          /\ chatsToProcess' = <<>>
          /\ newConversations' = <<>>
  /\ UNCHANGED << checkedOut, env, outOfOrder, probe, cacheLog, call, lastWrite, store, cache, batchSize, inflight, unanalyzedChats,
                  validConversations, results,
                  accumulatedForSave, batchNumber, pendingSave, totalSaved,
                  saveAttempts, report, aiLog, flushLog >>

\* saveConversationsToCache(newConversations).  "ok": committed;
\* "queryFails": a statement rejects, the transaction is rolled back and the
\* error is logged; "noConnection": getClient rejects before the try block,
\* so the rejection leaves processChatsBatch and runAnalysis;
\* "rollbackFails": a statement rejects and so does the ROLLBACK of the
\* catch block (the connection is lost, the server drops the transaction),
\* whose rejection leaves the function likewise.
SaveCache ==
  /\ pc = "cacheSave"
  /\ \E db \in {"ok", "queryFails", "noConnection", "rollbackFails"} :
       /\ cache' = IF db = "ok"
                   THEN CacheLoop(cache, newConversations, Len(newConversations))
                   ELSE cache
       /\ pc' = IF db \in {"noConnection", "rollbackFails"}
                THEN "failed" ELSE "processed"
       /\ cacheLog' = Append(cacheLog,
                             CASE db = "ok" -> "write"
                               [] db = "queryFails" -> "writeFailed"
                               [] OTHER -> db)
       /\ LET conn == IF db = "noConnection" THEN "down" ELSE "ok"
              path == CASE db = "ok" -> "commit"
                        [] db = "queryFails" -> "rollback"
                        [] OTHER -> "rollbackFails"
          IN  checkedOut' = checkedOut + Obtained(conn) - Released(conn, path)
  /\ i' = 0
  /\ chatsToProcess' = <<>>
  /\ newConversations' = <<>>
  /\ UNCHANGED << env, outOfOrder, probe, call, lastWrite, store, batchSize, inflight, chunkRes, unanalyzedChats,
                  conversationData,
                  validConversations, results, accumulatedForSave, batchNumber,
                  pendingSave, totalSaved, saveAttempts, report, aiLog, flushLog >>

\* ------------------------------------------------- runAnalysis, step 2-3
\* Variant: the error cases are not filtered out.
ValidOfAll(data) == data

\* conversationData.filter(data => !data.error).
ValidOf(data) == SelectSeq(data, LAMBDA d : d.error = "unset")

\* processChatsBatch has returned: the error cases are filtered out and
\* analyzeConversationsBatch is called with the save callback, or the run
\* ends when nothing is left.
FilterValid ==
  /\ pc = "processed"
  /\ LET valid == ValidOf(conversationData)
     IN  /\ validConversations' = valid
         /\ IF Len(valid) = 0
            THEN /\ pc' = "done"
                 /\ report' = [report EXCEPT !.outcome = "noValid"]
                 /\ UNCHANGED batchSize
            ELSE /\ pc' = "analyzeChunk"
                 /\ \E w \in 1..MaxWidth : batchSize' = w
                 /\ UNCHANGED report
  /\ i' = 0
  /\ batchNumber' = 0
  /\ results' = <<>>
  /\ accumulatedForSave' = <<>>
  /\ totalSaved' = 0
  /\ saveAttempts' = 0
  /\ UNCHANGED << checkedOut, env, outOfOrder, probe, cacheLog, call, lastWrite, store, cache, inflight, chunkRes, unanalyzedChats,
                  chatsToProcess, conversationData, newConversations, pendingSave,
                  aiLog, flushLog >>

\* ------------------------------------------- analyzeConversationsBatch
\* Variant: the callback is started and not awaited, so the loop may go on
\* while it runs.
LoopResumesUnawaited == pc \in {"analyzeChunk", "saving"}

\* The loop of analyzeConversationsBatch is at the top of an iteration: the
\* interval save of the previous one, if any, was awaited (`await
\* onIncrementalSave(...)` inside the try) and so was the delay.
LoopResumes == pc = "analyzeChunk"

\* The next chunk is sliced and every worker of it is started.
LaunchAnalyzeChunk ==
  /\ LoopResumes
  /\ batchNumber' = batchNumber + 1
  /\ inflight' = ChunkPositions(i, batchSize, Len(validConversations))
  /\ chunkRes' = <<>>
  /\ outOfOrder' = FALSE
  /\ pc' = "analyzing"
  /\ UNCHANGED << checkedOut, env, probe, cacheLog, call, lastWrite, store, cache, batchSize, i, unanalyzedChats, chatsToProcess,
                  conversationData, newConversations, validConversations, results,
                  accumulatedForSave, pendingSave, totalSaved, saveAttempts,
                  report, aiLog, flushLog >>

\* The worker of position k finishes: without a call for a conversation
\* without messages or text, else after the OpenAI call did `ai`.
AnalyzeItem(k) ==
  /\ pc = "analyzing"
  /\ k \in inflight
  /\ LET data == validConversations[k]
     IN  \E ai \in (IF CallsAI(data) THEN RunAIOutcomes ELSE {"nocall"}) :
           /\ chunkRes' = chunkRes @@ (k :> AnalyzeTask(data, ai))
           /\ aiLog' = [aiLog EXCEPT ![data.remoteJid] = ai]
  /\ inflight' = inflight \ {k}
  /\ outOfOrder' = (outOfOrder \/ \E j \in inflight : j < k)
  /\ UNCHANGED << checkedOut, env, probe, cacheLog, call, lastWrite, pc, store, cache, batchSize, i, unanalyzedChats, chatsToProcess,
                  conversationData, newConversations, validConversations, results,
                  accumulatedForSave, batchNumber, pendingSave, totalSaved,
                  saveAttempts, report, flushLog >>

\* Variant: no final save of the remainder after the last chunk.
AfterChunkNoFinalSave(acc) ==
  IF i + batchSize < Len(validConversations)
  THEN [ pc |-> "analyzeChunk", i |-> i + batchSize, pendingSave |-> NoSave ]
  ELSE [ pc |-> "summary", i |-> i, pendingSave |-> NoSave ]

\* Where analyzeConversationsBatch goes once a chunk and its interval save
\* are over, with accumulator acc: the next chunk after the delay, or, after
\* the last chunk, the final save of the remainder or the return.
AfterChunk(acc) ==
  IF i + batchSize < Len(validConversations)
  THEN [ pc |-> "analyzeChunk", i |-> NextOffset(i, batchSize),
         pendingSave |-> NoSave ]
  ELSE IF Len(acc) > 0 /\ Len(SuccessfulOf(acc)) > 0
       THEN [ pc |-> "saving", i |-> i,
              pendingSave |-> [site |-> "final", batch |-> SuccessfulOf(acc)] ]
       ELSE [ pc |-> "summary", i |-> i, pendingSave |-> NoSave ]

\* Variant: the accumulator is kept after an interval save.
AfterIntervalSaveKeep(acc, outcome) == acc

\* The accumulator after an interval save that ended with `outcome`
\* ("commit", "rollback" or "threw"): line 245 clears it on every path.
AfterIntervalSave(acc, outcome) == <<>>

\* Promise.all resolves: the chunk's results are appended to results and to
\* the accumulator; on every SAVE_INTERVAL-th chunk the successful results
\* of the accumulator are handed to the callback (or the accumulator is
\* cleared at once when there is none).
AnalyzeBarrier ==
  /\ pc = "analyzing"
  /\ AllSettled(inflight)
  /\ LET batchResults == BatchResults(chunkRes)
         acc == accumulatedForSave \o batchResults
         successfulInBatch == SuccessfulOf(acc)
     IN  /\ results' = results \o batchResults
         /\ IF batchNumber % SAVE_INTERVAL = 0 /\ Len(successfulInBatch) > 0
            THEN /\ accumulatedForSave' = acc
                 /\ pendingSave' = [site |-> "interval", batch |-> successfulInBatch]
                 /\ pc' = "saving"
                 /\ i' = i
            ELSE LET left == IF batchNumber % SAVE_INTERVAL = 0 THEN <<>> ELSE acc
                     next == AfterChunk(left)
                 IN  /\ accumulatedForSave' = left
                     /\ pendingSave' = next.pendingSave
                     /\ pc' = next.pc
                     /\ i' = next.i
  /\ chunkRes' = <<>>
  /\ UNCHANGED << checkedOut, env, outOfOrder, probe, cacheLog, call, lastWrite, store, cache, batchSize, inflight, unanalyzedChats,
                  chatsToProcess, conversationData, newConversations,
                  validConversations, batchNumber, totalSaved, saveAttempts,
                  report, aiLog, flushLog >>

\* Variant: the callback adds the size of the batch to the total.
AddSavedBatch(total, result) == total + result.success + result.failed

\* `if (result && result.success) totalSaved += result.success` of the
\* callback.
AddSaved(total, result) ==
  IF result.success > 0 THEN total + result.success ELSE total

\* incrementalSaveCallback(batch) settles.  "down": getClient rejects, so
\* bulkInsertAnalysisResults and the callback reject and the caller logs the
\* failure; "lost": the client is obtained, BEGIN rejects and so does the
\* ROLLBACK of the catch block, with the same rejection for the caller; "ok": bulkInsertAnalysisResults runs its transaction and returns
\* its summary.  After an interval save the accumulator is reset and the
\* loop goes on; after the final save the function returns.
SaveCallback ==
  /\ pc = "saving"
  /\ saveAttempts' = saveAttempts + 1
  /\ \E conn \in {"ok", "down", "lost"} :
       LET result  == bulkInsertAnalysisResults(store, pendingSave.batch)
           outcome == IF conn # "ok" THEN "threw" ELSE result.path
           client  == IF conn = "down" THEN "down" ELSE "ok"
           path    == IF conn = "lost" THEN "rollbackFails" ELSE result.path
           entry   == [ site    |-> pendingSave.site,
                        batch   |-> [ j \in 1..Len(pendingSave.batch) |->
                                        pendingSave.batch[j].remoteJid ],
                        outcome |-> outcome,
                        success |-> IF conn # "ok" THEN 0 ELSE result.success,
                        failed  |-> IF conn # "ok" THEN 0 ELSE result.failed ]
       IN  /\ store' = IF conn # "ok" THEN store ELSE result.table
           /\ checkedOut' = checkedOut + Obtained(client) - Released(client, path)
           /\ totalSaved' = IF conn = "ok"
                            THEN AddSaved(totalSaved, result)
                            ELSE totalSaved
           /\ flushLog' = Append(flushLog, entry)
           /\ IF pendingSave.site = "interval"
              THEN LET left == AfterIntervalSave(accumulatedForSave, outcome)
                       next == AfterChunk(left)
                   IN  /\ accumulatedForSave' = left
                       /\ pendingSave' = next.pendingSave
                       /\ pc' = next.pc
                       /\ i' = next.i
              ELSE /\ pendingSave' = NoSave
                   /\ pc' = "summary"
                   /\ UNCHANGED << accumulatedForSave, i >>
  /\ UNCHANGED << env, outOfOrder, probe, cacheLog, call, lastWrite, cache, batchSize, inflight, chunkRes, unanalyzedChats,
                  chatsToProcess, conversationData, newConversations,
                  validConversations, results, batchNumber, report, aiLog >>

\* ------------------------------------------------- runAnalysis, step 4-6
\* analyzeConversationsBatch prints its AI ANALYSIS SUMMARY (totalOtherErrors)
\* and returns; runAnalysis computes and prints the FINAL ANALYSIS SUMMARY.
\* The run returns {success: false} when nothing was analysed successfully
\* and nothing was saved, else it queries getAnalysisStats (whose rejection
\* is rethrown) and returns {success: true}.
Summary ==
  /\ pc = "summary"
  /\ LET successfulAnalyses == SuccessfulOf(results)
         quotaFailures == SelectSeq(results,
                            LAMBDA r : r.errorCode = "insufficient_quota")
         totalOtherErrors == SelectSeq(results,
                               LAMBDA r : /\ ~Successful(r)
                                          /\ r.errorCode # "insufficient_quota")
         printed == [ report EXCEPT !.totalAnalyzed = Len(results),
                                    !.successfulAnalyses = Len(successfulAnalyses),
                                    !.quotaFailures = Len(quotaFailures),
                                    !.otherErrors = Len(totalOtherErrors),
                                    !.totalSaved = totalSaved ]
     IN  IF totalSaved = 0 /\ Len(successfulAnalyses) = 0
         THEN /\ report' = [printed EXCEPT !.outcome = "noData"]
              /\ pc' = "done"
         ELSE \E statsOk \in BOOLEAN :
                /\ report' = [printed EXCEPT !.outcome =
                                IF statsOk THEN "success" ELSE "statsFailed"]
                /\ pc' = IF statsOk THEN "done" ELSE "failed"
  /\ UNCHANGED << checkedOut, env, outOfOrder, probe, cacheLog, call, lastWrite, store, cache, batchSize, i, inflight, chunkRes, unanalyzedChats,
                  chatsToProcess, conversationData, newConversations,
                  validConversations, results, accumulatedForSave, batchNumber,
                  pendingSave, totalSaved, saveAttempts, aiLog, flushLog >>

\* main, after runAnalysis returned: generateReport runs its three queries
\* together and rethrows what any of them throws; main then ends the process
\* with process.exit(0), or with process.exit(1) from its catch.
GenerateReport ==
  /\ pc = "done"
  /\ \E queriesOk \in BOOLEAN :
       pc' = IF queriesOk THEN "reported" ELSE "failed"
  /\ UNCHANGED << checkedOut, env, outOfOrder, probe, cacheLog, call, lastWrite, store, cache, batchSize, i, inflight,
                  chunkRes, unanalyzedChats, chatsToProcess, conversationData,
                  newConversations, validConversations, results,
                  accumulatedForSave, batchNumber, pendingSave, totalSaved,
                  saveAttempts, report, aiLog, flushLog >>

Next ==
  \/ Initialize
  \/ GetUnanalyzedChats
  \/ CheckCache
  \/ LaunchLoadChunk
  \/ \E k \in 1..NumChats : LoadItem(k)
  \/ LoadBarrier
  \/ SaveCache
  \/ FilterValid
  \/ LaunchAnalyzeChunk
  \/ \E k \in 1..NumChats : AnalyzeItem(k)
  \/ AnalyzeBarrier
  \/ SaveCallback
  \/ Summary
  \/ GenerateReport

Spec == Init /\ [][Next]_vars

\* The run under the scheduling of the event loop: every pending external
\* call and timer settles and every continuation that is ready is run, so a
\* step that stays possible is taken.  The run starts on an empty cache with
\* every chat but the first two analysed already, or is refused for its
\* missing key.
InitLive ==
  /\ pc = "start"
  /\ \E key \in {"set", "unset"} : env = [OPENAI_API_KEY |-> key]
  /\ store = {ReportRowOf(c) : c \in 3..NumChats}
  /\ cache = {}
  /\ FreshRun
  /\ call = NoCall
  /\ lastWrite = store
  /\ probe = NoProbe
  /\ checkedOut = 0

SpecLive == InitLive /\ [][Next]_vars /\ WF_vars(Next)

\* ------------------------------------------------------------ SpecSignal
\* SIGTERM or SIGINT arrives while the process runs: the handler logs and
\* calls process.exit(0) at once.  Whatever is pending is abandoned (an open
\* transaction is rolled back by the server when the connection drops); the
\* locals are kept as they were at the exit.
Signal ==
  /\ pc \notin {"reported", "failed", "aborted", "exited"}
  /\ pc' = "exited"
  /\ UNCHANGED << checkedOut, env, outOfOrder, probe, cacheLog, call, lastWrite, store, cache, batchSize, i, inflight,
                  chunkRes, unanalyzedChats, chatsToProcess, conversationData,
                  newConversations, validConversations, results,
                  accumulatedForSave, batchNumber, pendingSave, totalSaved,
                  saveAttempts, report, aiLog, flushLog >>

\* A run on an empty database, with the key set, that a signal can end.
InitSignal ==
  /\ Init
  /\ env.OPENAI_API_KEY = "set"
  /\ store = {}
  /\ cache = {}

NextSignal ==
  \/ Next
  \/ Signal

SpecSignal == InitSignal /\ [][NextSignal]_vars

\* ------------------------------------------------------------ SpecStore
\* bulkInsertAnalysisResults alone, called again and again on one table with
\* arbitrary batches: the rows of a batch are drawn one at a time as the for
\* loop reaches them.  Two identifiers give conflicting and non-conflicting
\* rows; every kind of OpenAI outcome gives a kind of row.
StoreIds == 1..2
StoreResults ==
  { AnalyzeTask(LoadTask(c, "text"), ai) :
      c \in StoreIds, ai \in {"valid", "overflow", "badtype", "quota"} }

\* The table a sequence of successful INSERT ... ON CONFLICT statements
\* must leave when the last write of each remoteJid wins: written[1..n]
\* applied to `expected`.
RECURSIVE LastWriteWins(_, _, _)
LastWriteWins(expected, written, n) ==
  IF n = 0 THEN expected
  ELSE LET before == LastWriteWins(expected, written, n - 1)
       IN  {r \in before : r.remoteJid # written[n].remoteJid} \cup {written[n]}

InitStore ==
  /\ Init
  /\ env.OPENAI_API_KEY = "set"
  /\ cache = {}

\* getClient and BEGIN: the loop starts on the committed table.
StoreBegin ==
  /\ call.phase \in {"idle", "returned"}
  /\ checkedOut' = checkedOut + Obtained("ok")
  /\ call' = [NoCall EXCEPT !.phase = "loop", !.loop = LoopStart(store)]
  /\ UNCHANGED << env, outOfOrder, probe, cacheLog, lastWrite, pc, store, cache, batchSize, i, inflight, chunkRes,
                  unanalyzedChats, chatsToProcess, conversationData,
                  newConversations, validConversations, results,
                  accumulatedForSave, batchNumber, pendingSave, totalSaved,
                  saveAttempts, report, aiLog, flushLog >>

\* One iteration of the for loop, on the next row of the batch.
StoreRow ==
  /\ call.phase = "loop"
  /\ ~call.loop.threw
  /\ Len(call.rows) < MaxBatch
  /\ \E result \in StoreResults :
       call' = [call EXCEPT !.rows = Append(@, result),
                            !.loop = InsertStep(@, result)]
  /\ UNCHANGED << checkedOut, env, outOfOrder, probe, cacheLog, lastWrite, pc, store, cache, batchSize, i, inflight, chunkRes,
                  unanalyzedChats, chatsToProcess, conversationData,
                  newConversations, validConversations, results,
                  accumulatedForSave, batchNumber, pendingSave, totalSaved,
                  saveAttempts, report, aiLog, flushLog >>

\* The loop is over (the batch had these rows, or the cap was exceeded in a
\* batch of n rows): COMMIT or ROLLBACK, release, return.
StoreReturn ==
  /\ call.phase = "loop"
  /\ Len(call.rows) > 0
  /\ \E n \in Len(call.rows)..MaxBatch :
       /\ n > Len(call.rows) => call.loop.threw
       /\ LET ret == InsertReturn(store, call.loop, n)
          IN  /\ store' = ret.table
              /\ checkedOut' = checkedOut - Released("ok", ret.path)
              /\ call' = [call EXCEPT !.phase = "returned",
                                      !.n = n,
                                      !.result = [ success |-> ret.success,
                                                   failed  |-> ret.failed,
                                                   errors  |-> ret.errors,
                                                   path    |-> ret.path ]]
              /\ lastWrite' = IF ret.path = "commit" /\ ~call.loop.txAborted
                              THEN LastWriteWins(lastWrite, call.loop.written,
                                                 Len(call.loop.written))
                              ELSE lastWrite
  /\ UNCHANGED << env, outOfOrder, probe, cacheLog, pc, cache, batchSize, i, inflight, chunkRes,
                  unanalyzedChats, chatsToProcess, conversationData,
                  newConversations, validConversations, results,
                  accumulatedForSave, batchNumber, pendingSave, totalSaved,
                  saveAttempts, report, aiLog, flushLog >>

NextStore ==
  \/ StoreBegin
  \/ StoreRow
  \/ StoreReturn

SpecStore == InitStore /\ [][NextStore]_vars

\* ------------------------------------------------------------- SpecProbe
\* The pure functions of the services, each called once on its own on
\* arguments drawn from small sets; `probe` keeps the call and its value.

\* A JavaScript value as prepareInsertValues sees it: a string, or a value
\* of another type (null and undefined when `chars` is empty, else an array
\* or object, with `chars` the text the driver sends for it).  Two letters
\* are enough to tell a truncation marker from the text before it.
Alphabet == {"a", "."}
Strings == UNION { [1..n -> Alphabet] : n \in 0..MaxValueLen }
JsString(chars) == [type |-> "string", chars |-> chars]
JsValues == { [type |-> t, chars |-> c] : t \in {"string", "other"}, c \in Strings }

\* `!value`: null, undefined and the empty string are falsy.
Falsy(value) == value.chars = <<>>

\* truncateString(value, maxLength) of prepareInsertValues.
truncateString(value, maxLength) ==
  IF Falsy(value) \/ value.type # "string"
  THEN value
  ELSE IF Len(value.chars) > maxLength
       THEN JsString(SubSeq(value.chars, 1, maxLength - 3) \o <<".", ".", ".">>)
       ELSE value

\* Three of the VARCHAR columns of "SalesAnalysisReport" and their widths
\* (200, 50 and 100 characters in the schema, scaled).
Columns == {"product_category", "ai_model_used", "remoteJid"}
VarcharWidth(column) ==
  CASE column = "product_category" -> MaxCategoryLen
    [] column = "ai_model_used" -> MaxModelLen
    [] column = "remoteJid" -> MaxJidLen

\* The literals 'No Product Mentioned' and 'gpt-3.5-turbo', shorter than
\* the widths of their columns.
DefaultText == JsString(<<"a", "a">>)

\* The element prepareInsertValues puts in the parameter array for a column,
\* given the field of the result it reads.
columnValue(column, value) ==
  CASE column = "product_category" ->
         truncateString(IF Falsy(value) THEN DefaultText ELSE value,
                        MaxCategoryLen)
    [] column = "ai_model_used" -> IF Falsy(value) THEN DefaultText ELSE value
    [] column = "remoteJid" -> value

\* The messages of a chat as getMessagesForChat returns them, oldest first;
\* sent_at is the position.  A message is text of the agent or the customer,
\* a text message without text, or a media message.
MessageKinds ==
  { [from_me |-> "true", messageType |-> "conversation", text_content |-> "hi"],
    [from_me |-> "false", messageType |-> "conversation", text_content |-> "hi"],
    [from_me |-> "false", messageType |-> "conversation", text_content |-> " "],
    [from_me |-> "false", messageType |-> "imageMessage", text_content |-> ""] }
MessageLists == UNION { [1..n -> MessageKinds] : n \in 0..MaxMessages }

\* messages.slice(-maxMessages), with the position of each message kept.
SliceLast(messages, maxMessages) ==
  LET first == IF Len(messages) > maxMessages
               THEN Len(messages) - maxMessages + 1 ELSE 1
  IN  [ k \in 1..(Len(messages) - first + 1) |->
          [sent_at |-> first + k - 1, message |-> messages[first + k - 1]] ]

\* The text of a message in the transcript.
TextOf(message) ==
  IF message.messageType = "conversation"
  THEN message.text_content
  ELSE "[IMAGEMESSAGE]"

\* buildConversationString(messages, maxMessages): the lines of the
\* transcript, one per message of the window that has text.  (The time of a
\* line is the sent_at of its message; its formatting is left out.)
buildConversationString(messages, maxMessages) ==
  LET recentMessages == SliceLast(messages, maxMessages)
      line(m) == [ time |-> m.sent_at,
                   name |-> IF m.message.from_me = "true"
                            THEN "Sales Agent" ELSE "Customer",
                   text |-> TextOf(m.message) ]
      lines == [k \in DOMAIN recentMessages |-> line(recentMessages[k])]
  IN  SelectSeq(lines, LAMBDA l : l.text \notin {"", " "})

\* config.maxConversationLength: parseInt(process.env.MAX_CONVERSATION_LENGTH)
\* || 200, with 0 for a variable that is unset or not a number.
maxConversationLength(MAX_CONVERSATION_LENGTH) ==
  IF MAX_CONVERSATION_LENGTH = 0 THEN DefaultWindow ELSE MAX_CONVERSATION_LENGTH

InitProbe ==
  /\ Init
  /\ env.OPENAI_API_KEY = "set"
  /\ store = {}
  /\ cache = {}

\* analyzeSalesConversation on a conversation, followed by the worker's
\* stamp and prepareInsertValues as in a run.
ProbeAnalyze ==
  /\ probe = NoProbe
  /\ \E conversation \in {"unset", "", " ", "text"}, remoteJid \in ChatIds,
        ai \in AIOutcomes :
       LET analysis == analyzeSalesConversation(conversation, remoteJid, ai)
       IN  probe' = [ fn |-> "analyzeSalesConversation",
                      conversation |-> conversation,
                      ai |-> ai,
                      analysis |-> analysis,
                      values |-> prepareInsertValues(analysis) ]
  /\ UNCHANGED << checkedOut, env, outOfOrder, cacheLog, call, lastWrite, pc, store, cache, batchSize,
                  i, inflight, chunkRes, unanalyzedChats, chatsToProcess,
                  conversationData, newConversations, validConversations,
                  results, accumulatedForSave, batchNumber, pendingSave,
                  totalSaved, saveAttempts, report, aiLog, flushLog >>

\* prepareInsertValues on a result whose field for one column is `value`.
ProbePrepare ==
  /\ probe = NoProbe
  /\ \E column \in Columns, value \in JsValues :
       probe' = [ fn |-> "prepareInsertValues",
                  column |-> column,
                  value |-> value,
                  stored |-> columnValue(column, value) ]
  /\ UNCHANGED << checkedOut, env, outOfOrder, cacheLog, call, lastWrite, pc, store, cache, batchSize,
                  i, inflight, chunkRes, unanalyzedChats, chatsToProcess,
                  conversationData, newConversations, validConversations,
                  results, accumulatedForSave, batchNumber, pendingSave,
                  totalSaved, saveAttempts, report, aiLog, flushLog >>

\* A loader of processChatsBatch on the messages of a chat, in a process
\* started with MAX_CONVERSATION_LENGTH set or not: it calls
\* this.buildConversationString(messages), with no second argument, so
\* maxMessages takes its default.
ProbeBuild ==
  /\ probe = NoProbe
  /\ \E messages \in MessageLists, MAX_CONVERSATION_LENGTH \in 0..MaxConfigured :
       probe' = [ fn |-> "buildConversationString",
                  messages |-> messages,
                  maxConversationLength |->
                    maxConversationLength(MAX_CONVERSATION_LENGTH),
                  conversation |->
                    buildConversationString(messages, DefaultWindow) ]
  /\ UNCHANGED << checkedOut, env, outOfOrder, cacheLog, call, lastWrite, pc, store, cache, batchSize,
                  i, inflight, chunkRes, unanalyzedChats, chatsToProcess,
                  conversationData, newConversations, validConversations,
                  results, accumulatedForSave, batchNumber, pendingSave,
                  totalSaved, saveAttempts, report, aiLog, flushLog >>

NextProbe ==
  \/ ProbeAnalyze
  \/ ProbePrepare
  \/ ProbeBuild

SpecProbe == InitProbe /\ [][NextProbe]_vars

\* =================================================================
\* Properties
\* =================================================================
\* The remoteJids of a sequence of results or conversation data.
JidsOf(rs) == { rs[k].remoteJid : k \in DOMAIN rs }

\* analyzeConversationsBatch has returned to runAnalysis.
AnalysisReturned ==
  \/ pc = "summary"
  \/ report.outcome \in {"noData", "success", "statsFailed"}

\* A call of the save callback that saved nothing: it threw, or
\* bulkInsertAnalysisResults rolled back and reported its rows as failed.
FlushFailed(entry) == entry.outcome \in {"threw", "rollback"}

\* The remoteJid was in the batch of a started call of the save callback.
Handed(jid) ==
  \/ \E n \in DOMAIN flushLog : jid \in Range(flushLog[n].batch)
  \/ jid \in JidsOf(pendingSave.batch)

\* The remoteJid has a row in "SalesAnalysisReport".
Stored(jid) == \E r \in store : r.remoteJid = jid

\* C1 (as claimed): after a flush that failed (the callback threw, or
\* bulk_upsert rolled back), every successful result of its batch is still in
\* the checkpoint accumulator or is handed again to a later flush: the
\* accumulator is cleared only after a flush that succeeded.
C1_FailedFlushKeepsResults ==
  \A n \in DOMAIN flushLog :
    FlushFailed(flushLog[n]) =>
      \A jid \in Range(flushLog[n].batch) :
        \/ \E r \in Range(accumulatedForSave) : r.remoteJid = jid /\ Successful(r)
        \/ \E m \in DOMAIN flushLog : m > n /\ jid \in Range(flushLog[m].batch)
        \/ jid \in JidsOf(pendingSave.batch)

\* C2 (as claimed): a chat whose OpenAI call failed in this run (quota,
\* transient error, malformed response) has no report row, and once the run
\* is over getUnanalyzedChats lists it again.
C2_FailedCallNotStored ==
  \A c \in ChatIds :
    aiLog[c] \in AIFailures =>
      /\ ~Stored(c)
      /\ pc \in {"done", "reported", "failed"}
           => c \in Range(getUnanalyzedChats(store))

\* C3 (as claimed): in the final summary the quota-failure count is the
\* number of conversations whose OpenAI call failed with the quota error,
\* and the other-errors count is the number of the other failed calls.
C3_QuotaCountedSeparately ==
  report.outcome \in {"noData", "success", "statsFailed"} =>
    /\ report.quotaFailures = Cardinality({c \in ChatIds : aiLog[c] = "quota"})
    /\ report.otherErrors =
         Cardinality({c \in ChatIds : aiLog[c] \in AIFailures \ {"quota"}})

\* C4: every successful result is in the accumulator until it is handed to
\* the save callback; after every SAVE_INTERVAL-th chunk and when
\* analyzeConversationsBatch has returned, every successful result produced
\* so far has been handed to the callback.
C4_EverySuccessHandedToAFlush ==
  /\ \A r \in Range(results) :
       Successful(r) => Handed(r.remoteJid) \/ r \in Range(accumulatedForSave)
  /\ ( \/ AnalysisReturned
       \/ /\ pc = "analyzeChunk"
          /\ batchNumber > 0
          /\ batchNumber % SAVE_INTERVAL = 0 )
     => \A r \in Range(results) : Successful(r) => Handed(r.remoteJid)

\* C4 witness: the function has returned after an interval save and a final
\* save of the remainder.
C4_Witness ==
  /\ AnalysisReturned
  /\ \E n \in DOMAIN flushLog : flushLog[n].site = "interval"
  /\ \E n \in DOMAIN flushLog : flushLog[n].site = "final"

\* Exactly one element of the sequence has this remoteJid.
OnceIn(rs, jid) == Cardinality({k \in DOMAIN rs : rs[k].remoteJid = jid}) = 1

\* C5: processChatsBatch returns exactly one result per input chat and
\* analyzeConversationsBatch exactly one result per input conversation,
\* for every chunk width and every mix of successes and captured failures.
C5_OneResultPerItem ==
  /\ pc = "processed" =>
       /\ Len(conversationData) = Len(unanalyzedChats)
       /\ \A c \in Range(unanalyzedChats) : OnceIn(conversationData, c)
  /\ AnalysisReturned =>
       /\ Len(results) = Len(validConversations)
       /\ \A c \in JidsOf(validConversations) : OnceIn(results, c)

\* C5 witness: both functions have returned from more than one chunk each,
\* with a captured load error, a failed OpenAI call and a successful one.
C5_Witness ==
  /\ AnalysisReturned
  /\ Len(validConversations) > batchSize
  /\ Len(conversationData) = NumChats
  /\ \E k \in DOMAIN conversationData : conversationData[k].error # "unset"
  /\ \E c \in ChatIds : aiLog[c] \in AIFailures
  /\ \E c \in ChatIds : aiLog[c] = "valid"

\* C6: the workers in flight all belong to the current chunk, so they are at
\* most batchSize, and while a chunk is in flight every item of the earlier
\* chunks has its result recorded.
C6_ChunkBarrier ==
  /\ Cardinality(inflight) <= batchSize
  /\ pc = "loading" =>
       /\ inflight \subseteq ChunkPositions(i, batchSize, Len(chatsToProcess))
       /\ Len(conversationData) + Len(chatsToProcess) = Len(unanalyzedChats) + i
  /\ pc = "analyzing" =>
       /\ inflight \subseteq ChunkPositions(i, batchSize, Len(validConversations))
       /\ Len(results) = i
  /\ pc \notin {"loading", "analyzing"} => inflight = {}

\* C6 witness: a worker of the second analysis chunk is in flight after the
\* first chunk, of two items, has completed.
C6_Witness ==
  /\ pc = "analyzing"
  /\ batchSize = 2
  /\ i = 2
  /\ inflight # {}
  /\ Len(results) = 2

\* The positions of the chunk of validConversations that holds position k.
ChunkOf(k) ==
  ChunkPositions(((k - 1) \div batchSize) * batchSize, batchSize,
                 Len(validConversations))

\* The OpenAI call of position k of validConversations failed.
FailedAt(k) == aiLog[validConversations[k].remoteJid] \in AIFailures

\* C7: when exactly one item of a chunk fails, the failure is recorded in
\* that item's own result, every other item of the chunk is a success that
\* is handed to the save callback (and stored when that call committed all
\* its rows), and every chunk of the input is processed.
C7_ChunkIsolation ==
  AnalysisReturned =>
    \A k \in DOMAIN validConversations :
      ( /\ FailedAt(k)
        /\ \A j \in ChunkOf(k) \ {k} :
             aiLog[validConversations[j].remoteJid] \in {"valid", "overflow"} )
      => /\ results[k].remoteJid = validConversations[k].remoteJid
         /\ results[k].error = aiLog[validConversations[k].remoteJid]
         /\ \A j \in ChunkOf(k) \ {k} :
              /\ Successful(results[j])
              /\ \E n \in DOMAIN flushLog :
                   /\ results[j].remoteJid \in Range(flushLog[n].batch)
                   /\ ( flushLog[n].outcome = "commit" /\ flushLog[n].failed = 0 )
                        => Stored(results[j].remoteJid)
         /\ Len(results) = Len(validConversations)

\* C7 witness: the first chunk of two had one failed call and one valid
\* analysis, a second chunk followed, and the valid analysis is stored.
C7_Witness ==
  /\ AnalysisReturned
  /\ batchSize = 2
  /\ Len(validConversations) = 3
  /\ FailedAt(1)
  /\ aiLog[validConversations[2].remoteJid] = "valid"
  /\ Stored(validConversations[2].remoteJid)
  /\ Len(results) = 3

\* ------------------------------------------- bulkInsertAnalysisResults
\* Row k of the batch is rejected by PostgreSQL on its own account.
RowRejected(rows, k) ==
  /\ ~PrepareThrows(rows[k])
  /\ ViolatesConstraint(prepareInsertValues(rows[k]))

\* Row k of the batch is defective: it cannot be written whatever the other
\* rows are.
Defective(rows, k) == PrepareThrows(rows[k]) \/ RowRejected(rows, k)

\* The iteration of row k ends in the catch block: the row is defective, or
\* an earlier row was rejected and left the transaction aborted.
RowFails(rows, k) ==
  \/ PrepareThrows(rows[k])
  \/ \E j \in 1..k : RowRejected(rows, j)

\* The number of iterations over `rows` that end in the catch block.
ErrorsIn(rows) == Cardinality({k \in DOMAIN rows : RowFails(rows, k)})

\* The length of the run of consecutive failed iterations that ends at row k.
RECURSIVE ErrorRun(_, _)
ErrorRun(rows, k) ==
  IF k = 0 \/ ~RowFails(rows, k) THEN 0 ELSE 1 + ErrorRun(rows, k - 1)

\* The longest run of consecutive failed iterations over `rows`.
LongestErrorRun(rows) ==
  IF rows = <<>> THEN 0
  ELSE CHOOSE m \in 0..Len(rows) :
         /\ \E k \in DOMAIN rows : ErrorRun(rows, k) = m
         /\ \A k \in DOMAIN rows : ErrorRun(rows, k) <= m

\* The call has returned and every row of its batch was looked at.
ReturnedWhole == call.phase = "returned" /\ call.n = Len(call.rows)

\* C8 (as claimed): when a row of the batch is rejected by a constraint, the
\* rows are retried one at a time, so every non-defective row is stored and
\* counted as succeeded and the reported errors are the defective rows only.
C8_DefectiveRowsIsolated ==
  ( /\ ReturnedWhole
    /\ call.result.path = "commit"
    /\ \E k \in DOMAIN call.rows : RowRejected(call.rows, k) )
  => LET good == {k \in DOMAIN call.rows : ~Defective(call.rows, k)}
         bad  == {k \in DOMAIN call.rows : Defective(call.rows, k)}
     IN  /\ \A k \in good : Stored(call.rows[k].remoteJid)
         /\ call.result.success = Cardinality(good)
         /\ call.result.failed = Cardinality(bad)
         /\ Range(call.result.errors) = {call.rows[k].remoteJid : k \in bad}

\* C9: the table holds at most one row per remoteJid, each row carries the
\* values of the most recent committed write of its remoteJid, and a second
\* call with the batch of a call that has just returned leaves the table as
\* the first call left it.
C9_LastWriteWinsIdempotent ==
  /\ \A r1, r2 \in store : r1.remoteJid = r2.remoteJid => r1 = r2
  /\ call.phase # "idle" => store = lastWrite
  /\ ReturnedWhole =>
       bulkInsertAnalysisResults(store, call.rows).table = store

\* C9 witness: a committed call whose batch wrote one remoteJid twice with
\* different values, and the table holds the second of them.
C9_Witness ==
  /\ ReturnedWhole
  /\ call.result.path = "commit"
  /\ ~call.loop.txAborted
  /\ \E j, k \in DOMAIN call.loop.written :
       /\ j < k
       /\ call.loop.written[j].remoteJid = 1
       /\ call.loop.written[k].remoteJid = 1
       /\ call.loop.written[j] # call.loop.written[k]
       /\ \A m \in DOMAIN call.loop.written :
            m > k => call.loop.written[m].remoteJid # 1
       /\ call.loop.written[k] \in store

\* C10 (as claimed): the call is aborted exactly when more than MAX_ERRORS
\* consecutive iterations failed; failures separated by written rows do not
\* add up.
C10_ConsecutiveErrorsAbort ==
  call.phase = "returned" =>
    ( call.result.path = "rollback"
        <=> LongestErrorRun(call.rows) > MAX_ERRORS )

\* C10 (amended): the call is aborted exactly when the total number of failed
\* iterations exceeds MAX_ERRORS, at the iteration that exceeds it; failures
\* separated by written rows add up.
C10_TotalErrorsAbort ==
  /\ call.phase \in {"loop", "returned"} =>
       /\ call.loop.threw <=> ErrorsIn(call.rows) > MAX_ERRORS
       /\ call.loop.threw =>
            /\ ErrorsIn(call.rows) = MAX_ERRORS + 1
            /\ RowFails(call.rows, Len(call.rows))
  /\ call.phase = "returned" =>
       ( call.result.path = "rollback" <=> ErrorsIn(call.rows) > MAX_ERRORS )

\* C10 witness: a call aborted by failures that a written row separates, no
\* run of them longer than MAX_ERRORS.
C10_Witness ==
  /\ call.phase = "returned"
  /\ call.result.path = "rollback"
  /\ call.loop.successCount > 0
  /\ LongestErrorRun(call.rows) <= MAX_ERRORS

\* ------------------------------------------------------------ durability
\* C11: no step of the run, be it a save that commits, a save that fails or
\* is rolled back, or the exit of the process on a signal, removes or alters
\* a row of "SalesAnalysisReport" that is already committed.
C11_CommittedRowsStay == [][\A r \in store : r \in store']_vars

\* C11 witness: the process has exited on a signal after an interval save
\* that committed rows and a final save that failed; the rows of the first
\* save are stored.
C11_Witness ==
  /\ pc = "exited"
  /\ Len(flushLog) = 2
  /\ flushLog[1].outcome = "commit"
  /\ flushLog[1].success = Len(flushLog[1].batch)
  /\ FlushFailed(flushLog[2])
  /\ \A jid \in Range(flushLog[1].batch) : Stored(jid)

\* ------------------------------------------------------- empty transcripts
\* The transcripts that are missing, empty or whitespace only.
EmptyTranscripts == {"unset", "", " "}

\* C12: for a missing, empty or whitespace-only transcript
\* analyzeSalesConversation returns the canonical empty analysis whatever the
\* OpenAI service would answer, and the worker sends no request; in a run,
\* the result of every such conversation is the empty analysis, category
\* 'No Product Mentioned', and no OpenAI call is logged for its chat.
\* (The first part reads no variable and is evaluated at the start only.)
C12_BlankTranscriptNoRequest ==
  /\ pc = "start" =>
       \A conversation \in EmptyTranscripts, c \in ChatIds, ai \in AIOutcomes :
         /\ analyzeSalesConversation(conversation, c, ai) = getEmptyAnalysis(c)
         /\ ~CallsAI([LoadTask(c, "text") EXCEPT !.conversation = conversation])
  /\ \A k \in DOMAIN results :
       validConversations[k].conversation \in EmptyTranscripts =>
         /\ results[k].remoteJid = validConversations[k].remoteJid
         /\ results[k].product_category = "No Product Mentioned"
         /\ [results[k] EXCEPT !.analysisSuccess = "unset"]
              = getEmptyAnalysis(results[k].remoteJid)
         /\ aiLog[results[k].remoteJid] = "nocall"

\* C12 witness: a run has analysed a chat whose messages render to an empty
\* transcript, next to a chat whose OpenAI call answered.
C12_Witness ==
  /\ AnalysisReturned
  /\ \E k \in DOMAIN results :
       /\ validConversations[k].conversation = ""
       /\ validConversations[k].hasMessages
       /\ results[k].product_category = "No Product Mentioned"
  /\ \E c \in ChatIds : aiLog[c] = "valid"

\* ------------------------------------------------------------------ cache
\* C13: a chat that the cache lookup of processChatsBatch returned is not
\* among the chats handed to the loaders, no loader runs or has run for it,
\* and its only entry in the returned data is the cached one.
C13_CacheHitNotLoaded ==
  \A k \in DOMAIN conversationData :
    conversationData[k].fromCache =>
      LET jid == conversationData[k].remoteJid
      IN  /\ jid \notin Range(chatsToProcess)
          /\ jid \notin JidsOf(newConversations)
          /\ pc = "loading" => jid \notin JidsOf(chunkRes)
          /\ OnceIn(conversationData, jid)

\* C13 witness: processChatsBatch has returned one entry from the cache and
\* one entry that a loader built.
C13_Witness ==
  /\ pc = "processed"
  /\ \E k \in DOMAIN conversationData : conversationData[k].fromCache
  /\ \E k \in DOMAIN conversationData :
       /\ ~conversationData[k].fromCache
       /\ conversationData[k].conversation = "text"

\* C14: every row of "ConversationCache" has a transcript that is neither
\* empty nor whitespace only, at most one row per remoteJid:
\* saveConversationsToCache skips the conversations with an empty transcript.
C14_CacheRowsNonEmpty ==
  /\ \A r \in cache : r.conversation_text \notin EmptyTranscripts
  /\ \A r1, r2 \in cache : r1.remoteJid = r2.remoteJid => r1 = r2

\* C14 witness: processChatsBatch has returned after a cache save that wrote
\* the row of one loaded chat and skipped a chat whose messages render to an
\* empty transcript.
C14_Witness ==
  /\ pc = "processed"
  /\ \E k \in DOMAIN conversationData :
       /\ ~conversationData[k].fromCache
       /\ conversationData[k].hasMessages
       /\ conversationData[k].conversation = ""
       /\ ~CacheHas(cache, conversationData[k].remoteJid)
  /\ \E k \in DOMAIN conversationData :
       /\ ~conversationData[k].fromCache
       /\ conversationData[k].conversation = "text"
       /\ CacheHas(cache, conversationData[k].remoteJid)

\* ---------------------------------------------------------------- listing
\* C15: the chats listed by getUnanalyzedChats are individual chats that had
\* no "SalesAnalysisReport" row when listed (a listed chat with a row got it
\* from a save of this run); a group chat, or a chat whose row was committed
\* before the run, is not listed, loaded, analysed or saved again.
C15_OnlyUnanalyzedIndividuals ==
  /\ \A c \in Range(unanalyzedChats) :
       /\ c \in ChatIds
       /\ c \notin GroupIds
       /\ Stored(c) => Handed(c)
  /\ \A c \in ChatIds \cup GroupIds :
       ( c \in GroupIds \/ (Stored(c) /\ ~Handed(c)) ) =>
         /\ c \notin Range(unanalyzedChats)
         /\ c \notin JidsOf(conversationData)
         /\ c \notin JidsOf(results)
         /\ c \in ChatIds => aiLog[c] = "nocall"

\* C15 witness: a run over the other chats has ended with rows saved, while
\* the chat whose row an earlier run committed was left out and its row is
\* as it was.
C15_Witness ==
  /\ pc = "done"
  /\ report.outcome = "success"
  /\ report.totalSaved > 0
  /\ ReportRowOf(1) \in store
  /\ ~Handed(1)
  /\ Len(unanalyzedChats) = NumChats - 1

\* ------------------------------------------------------------ load errors
\* C16: a chat whose messages could not be read has an entry carrying the
\* error in the data processChatsBatch returns, which holds exactly one
\* entry for every listed chat; the chat is not passed to the analysis, no
\* OpenAI call is made for it, and it is neither handed to a save nor stored.
C16_LoadErrorIsolated ==
  /\ pc = "processed" =>
       /\ Len(conversationData) = Len(unanalyzedChats)
       /\ \A c \in Range(unanalyzedChats) : OnceIn(conversationData, c)
  /\ \A k \in DOMAIN conversationData :
       conversationData[k].error # "unset" =>
         LET jid == conversationData[k].remoteJid
         IN  /\ ~conversationData[k].hasMessages
             /\ jid \notin JidsOf(validConversations)
             /\ jid \notin JidsOf(results)
             /\ aiLog[jid] = "nocall"
             /\ ~Handed(jid)
             /\ ~Stored(jid)

\* C16 witness: the run has ended with the message query of one chat failed
\* and the analysis of another chat, loaded in the same call, stored.
C16_Witness ==
  /\ pc = "done"
  /\ report.outcome = "success"
  /\ \E k \in DOMAIN conversationData : conversationData[k].error # "unset"
  /\ \E k \in DOMAIN conversationData :
       /\ ~conversationData[k].fromCache
       /\ conversationData[k].error = "unset"
       /\ aiLog[conversationData[k].remoteJid] = "valid"
       /\ Stored(conversationData[k].remoteJid)

\* ------------------------------------------------------------ fatal errors
\* C17 (as claimed): once initialize() has succeeded no error ends the run:
\* a failed listing query, cache write, save or statistics query is recorded
\* and the run goes on to its end, so runAnalysis never rejects.
C17_OnlyConfigurationErrorFatal == pc # "failed"

\* C18: when OPENAI_API_KEY is not set the process goes from its start to
\* the abort and nowhere else: runAnalysis is not entered, so no chat is
\* listed, no cache row read or written, no OpenAI call made, no save
\* attempted, and both tables are as they were.
C18_MissingKeyAbortsBeforeLoading ==
  env.OPENAI_API_KEY = "unset" =>
    /\ pc \in {"start", "aborted"}
    /\ FreshRun
    /\ store = lastWrite
    /\ \A r \in cache : r = CacheRowOf(r.remoteJid)

\* C18 witness: the process has aborted for want of the key.
C18_Witness ==
  /\ env.OPENAI_API_KEY = "unset"
  /\ pc = "aborted"

\* C19 (as claimed): when the OpenAI call of every conversation passed to
\* the analysis failed, the run has no successful analysis: its summary is
\* the 'no data saved' outcome and no row is written for its chats.
C19_AllFailedReportsNoData ==
  ( /\ report.outcome \in {"noData", "success", "statsFailed"}
    /\ \A c \in JidsOf(validConversations) : aiLog[c] \in AIFailures )
  => /\ report.outcome = "noData"
     /\ report.successfulAnalyses = 0
     /\ \A c \in Range(unanalyzedChats) : ~Stored(c)

\* C20 (as claimed): a signal that arrives while the workers of a chunk are
\* pending lets them finish, so the process never exits with a worker of a
\* chunk still pending.
C20_SignalLetsChunkFinish == pc = "exited" => inflight = {}

\* The status main hands to process.exit: 0 after generateReport returned
\* (and from the signal handlers), 1 from its catch; "running" before.
ExitStatus ==
  IF pc \in {"reported", "exited"} THEN "0"
  ELSE IF pc \in {"failed", "aborted"} THEN "1"
  ELSE "running"

\* The chats whose OpenAI call failed in this run, and those whose call
\* returned an analysis.
FailedCalls == {c \in ChatIds : aiLog[c] \in AIFailures}
AnsweredCalls == {c \in ChatIds : aiLog[c] \in AIOutcomes \ AIFailures}

\* The outcome of a run, by what happened in it.
RunOutcome ==
  IF pc = "aborted" THEN "config"
  ELSE IF FailedCalls = {} THEN "success"
  ELSE IF AnsweredCalls = {} THEN "totalFailure"
  ELSE "partialFailure"

\* C21 (as claimed): the exit status tells the four run outcomes apart, so
\* the status of a successful run (0, the one main exits with after the
\* report) is the status of no run in which an analysis failed.
C21_FourExitStatuses ==
  ExitStatus = "0" => RunOutcome = "success"

\* A step of a worker task of either pool: the callback mapped over a chunk
\* runs from its await to its return.
WorkerStep == \E k \in 1..NumChats : LoadItem(k) \/ AnalyzeItem(k)

\* C22 (as claimed): a worker task of either pool only returns a value: its
\* step writes none of the structures the tasks share (the lists of the two
\* batch functions, the checkpoint accumulator, the tables).
C22_WorkersOnlyReturn ==
  [][WorkerStep => UNCHANGED << newConversations, conversationData, results,
                                accumulatedForSave, store, cache >>]_vars

\* C23 (as claimed): the result returned for a conversation whose OpenAI
\* call failed (quota, transient error, malformed response) carries the
\* kind of the failure and is a failure for the counts, never a success.
C23_FailureCarriesItsKind ==
  \A k \in DOMAIN results :
    aiLog[results[k].remoteJid] \in AIFailures =>
      /\ results[k].errorCode # "unset"
      /\ ~Successful(results[k])

\* runAnalysis has returned.
RunReturned == pc \in {"done", "reported"} /\ report # NoReport

\* Nothing went wrong around the analysis: the cache was read and written,
\* every message query answered, and every call of the save callback
\* committed all of its rows.
NominalRun ==
  /\ \A n \in DOMAIN cacheLog : cacheLog[n] \in {"read", "write"}
  /\ \A k \in DOMAIN conversationData : conversationData[k].error = "unset"
  /\ \A n \in DOMAIN flushLog :
       flushLog[n].outcome = "commit" /\ flushLog[n].failed = 0

\* The remoteJid has a row in "ConversationCache".
Cached(jid) == \E r \in cache : r.remoteJid = jid

\* C24: a nominal run over chats without messages, chats found in the cache
\* and chats loaded with messages returns exactly one result per chat; the
\* result of a chat without messages is the empty analysis; of the loaded
\* chats exactly those with a non-empty transcript have got a cache row;
\* and every chat from the cache or loaded with messages has a report row.
C24_ThreeKindsOfChat ==
  (RunReturned /\ NominalRun) =>
    /\ Len(results) = Len(unanalyzedChats)
    /\ \A c \in Range(unanalyzedChats) :
         /\ OnceIn(results, c)
         /\ OnceIn(conversationData, c)
    /\ \A k \in DOMAIN conversationData :
         LET data == conversationData[k]
             jid == data.remoteJid
         IN  /\ ~data.hasMessages =>
                  \A n \in DOMAIN results :
                    results[n].remoteJid = jid =>
                      results[n] = getEmptyAnalysis(jid)
             /\ ~data.fromCache =>
                  (Cached(jid) <=> ~IsBlank(data.conversation))
             /\ (data.fromCache \/ data.hasMessages) => Stored(jid)

\* C24 witness: a nominal run has returned over one chat of each kind.
C24_Witness ==
  /\ RunReturned /\ NominalRun
  /\ \E k \in DOMAIN conversationData : ~conversationData[k].hasMessages
  /\ \E k \in DOMAIN conversationData : conversationData[k].fromCache
  /\ \E k \in DOMAIN conversationData :
       /\ ~conversationData[k].fromCache
       /\ conversationData[k].conversation = "text"
       /\ Cached(conversationData[k].remoteJid)
       /\ Stored(conversationData[k].remoteJid)

\* C25 (as claimed): whatever confidence the OpenAI service returns, the
\* confidence of the result of analyzeSalesConversation and the
\* analysis_confidence prepareInsertValues hands to the table lie in [0,1]
\* (0..100 hundredths).
C25_ConfidenceClamped ==
  probe.fn = "analyzeSalesConversation" =>
    /\ probe.analysis.analysisConfidence \in 0..100
    /\ probe.values.analysis_confidence \in 0..100

\* C26 (as claimed): the confidence of a result is 0.5 when the service
\* answered without a confidence, 0.3 for an empty transcript and 0.1 when
\* the call failed, in the result and in the value handed to the table.
C26_DefaultConfidences ==
  probe.fn = "analyzeSalesConversation" =>
    LET expected == IF IsBlank(probe.conversation) THEN 30
                    ELSE IF probe.ai \in AIFailures THEN 10
                    ELSE 50
    IN  (IsBlank(probe.conversation) \/ probe.ai \in AIFailures \cup {"unscored"})
          => /\ probe.analysis.analysisConfidence = expected
             /\ probe.values.analysis_confidence = expected

\* The last three characters are the truncation marker.
EndsWithMarker(chars) ==
  /\ Len(chars) >= 3
  /\ SubSeq(chars, Len(chars) - 2, Len(chars)) = <<".", ".", ".">>

\* C27 (as claimed): for every VARCHAR column of width L, a string longer
\* than L is handed to the table as a string of at most L characters ending
\* with '...', a string of at most L characters is handed over unchanged,
\* and no string handed over for the column is longer than L.
C27_StringsFitTheirColumns ==
  probe.fn = "prepareInsertValues" =>
    LET L == VarcharWidth(probe.column)
    IN  /\ (probe.value.type = "string" /\ Len(probe.value.chars) > L) =>
             /\ probe.stored.type = "string"
             /\ Len(probe.stored.chars) <= L
             /\ EndsWithMarker(probe.stored.chars)
        /\ (probe.value.type = "string" /\ Len(probe.value.chars) \in 1..L) =>
             probe.stored = probe.value
        /\ probe.value.type = "string" => Len(probe.stored.chars) <= L

\* C30 (as claimed): the transcript a loader renders has lines only for
\* messages among the most recent N of the chat, N the configured window
\* (config.maxConversationLength), in ascending order of time, and it is the
\* one text that the messages and N determine.
C30_ConfiguredWindow ==
  probe.fn = "buildConversationString" =>
    LET N == probe.maxConversationLength
        lines == probe.conversation
    IN  /\ \A k \in DOMAIN lines : lines[k].time > Len(probe.messages) - N
        /\ \A j, k \in DOMAIN lines : j < k => lines[j].time < lines[k].time
        /\ lines = buildConversationString(probe.messages, N)

\* The result of position k of validConversations as its conversation and
\* the outcome of its OpenAI call determine it.
ExpectedResult(k) ==
  AnalyzeTask(validConversations[k], aiLog[validConversations[k].remoteJid])
ExpectedResults(first, last) ==
  [ j \in 1..(last - first + 1) |-> ExpectedResult(first + j - 1) ]

\* The save callback is called once per SAVE_INTERVAL chunks, and once for
\* the chunks left at the end, with the successful results of those chunks
\* in input order; it is not called for none.
SegmentWidth == SAVE_INTERVAL * batchSize
ExpectedSegment(s) ==
  LET last == IF s * SegmentWidth < Len(validConversations)
              THEN s * SegmentWidth ELSE Len(validConversations)
      successful == SuccessfulOf(ExpectedResults((s - 1) * SegmentWidth + 1, last))
  IN  [ j \in 1..Len(successful) |-> successful[j].remoteJid ]
ExpectedBatches ==
  LET segments == (Len(validConversations) + SegmentWidth - 1) \div SegmentWidth
  IN  SelectSeq([s \in 1..segments |-> ExpectedSegment(s)],
                LAMBDA batch : Len(batch) > 0)

\* The results of the remoteJids of a batch, as determined by their inputs.
ExpectedRows(batch) ==
  [ j \in 1..Len(batch) |->
      ExpectedResult(CHOOSE k \in DOMAIN validConversations :
                       validConversations[k].remoteJid = batch[j]) ]

\* What a call of the save callback that ended with log entry `entry` makes
\* of the table: bulkInsertAnalysisResults applied to the results of the
\* batch; a call that found no connection leaves the table.
StoreAfter(table, entry) ==
  IF entry.outcome = "threw"
  THEN table
  ELSE bulkInsertAnalysisResults(table, ExpectedRows(entry.batch)).table

\* C28: the rows of "SalesAnalysisReport" are determined by the input
\* conversations, the outcome of the OpenAI call of each, and which saves
\* found a connection: every result is the one its input and outcome
\* determine, at its input position; the batches saved are the successful
\* results of each run of SAVE_INTERVAL chunks in input order; and the table
\* changes only by a save, to what the save of that batch makes of it.  No
\* order of completion within a chunk enters.
C28_PersistedSetIgnoresCompletionOrder ==
  /\ [](/\ \A k \in DOMAIN results : results[k] = ExpectedResult(k)
        /\ AnalysisReturned =>
             [n \in DOMAIN flushLog |-> flushLog[n].batch] = ExpectedBatches)
  /\ [][store' = IF flushLog' = flushLog
                 THEN store
                 ELSE StoreAfter(store, flushLog'[Len(flushLog')])]_vars

\* C28 witness: the run has returned after a chunk in which a worker
\* finished before the worker of an earlier position, and the rows of two
\* results of one save are in the table.
C28_Witness ==
  /\ outOfOrder
  /\ RunReturned
  /\ \E n \in DOMAIN flushLog :
       /\ flushLog[n].outcome = "commit"
       /\ flushLog[n].success >= 2
       /\ \A j \in DOMAIN flushLog[n].batch : Stored(flushLog[n].batch[j])

\* A request to the OpenAI service has been issued in this run: a worker
\* that calls it is in flight, or a call has ended.
AICallIssued ==
  \/ /\ pc = "analyzing"
     /\ \E k \in inflight : CallsAI(validConversations[k])
  \/ \E c \in ChatIds : aiLog[c] # "nocall"

\* The transcripts rendered in this run: loaded, with messages and text.
NewlyRendered(data) ==
  /\ ~data.fromCache
  /\ data.hasMessages
  /\ ~IsBlank(data.conversation)

\* saveConversationsToCache has been awaited for every transcript rendered
\* in this run, and where it committed the transcript has its cache row.
CacheWritesDone ==
  \A k \in DOMAIN conversationData :
    NewlyRendered(conversationData[k]) =>
      /\ \E n \in DOMAIN cacheLog : cacheLog[n] \in {"write", "writeFailed"}
      /\ (\E n \in DOMAIN cacheLog : cacheLog[n] = "write") =>
           [ remoteJid |-> conversationData[k].remoteJid,
             conversation_text |-> conversationData[k].conversation ] \in cache

\* C29: when the first OpenAI call of a run is issued, the cache write for
\* the transcripts rendered in the run is over, and from then on the run
\* is past loading and writes nothing to "ConversationCache".
C29_CacheWrittenBeforeFirstCall ==
  /\ [](AICallIssued =>
          /\ CacheWritesDone
          /\ pc \notin {"start", "idle", "cacheCheck", "loadChunk", "loading",
                        "cacheSave", "processed"})
  /\ [][AICallIssued => cache' = cache /\ cacheLog' = cacheLog]_vars

\* C29 witness: the workers of the first analysis chunk are in flight on
\* their OpenAI calls, none has ended, and a transcript rendered in this run
\* has the cache row this run wrote for it.
C29_Witness ==
  /\ pc = "analyzing"
  /\ \A c \in ChatIds : aiLog[c] = "nocall"
  /\ \E k \in inflight : CallsAI(validConversations[k])
  /\ \E k \in DOMAIN conversationData :
       /\ NewlyRendered(conversationData[k])
       /\ conversationData[k].remoteJid \notin CachedIds
       /\ Cached(conversationData[k].remoteJid)

\* The values of the rows a returned summary counts as succeeded: those
\* whose INSERT succeeded when the call committed, none when it reported
\* every row as failed.
CountedWritten(loop, result) ==
  IF result.path = "commit" THEN loop.written ELSE <<>>

\* C31 (as claimed): when bulkInsertAnalysisResults returns {success: s,
\* failed: f}, the table is the one it found with exactly the s rows counted
\* as succeeded written to it: none of them is rolled back and no row
\* counted as failed is stored.
C31_CountedRowsAreCommitted ==
  [][(call.phase = "loop" /\ call'.phase = "returned") =>
       LET counted == CountedWritten(call.loop, call'.result)
       IN  /\ call'.result.success = Len(counted)
           /\ store' = LastWriteWins(store, counted, Len(counted))]_vars

\* The number of times the result of the remoteJid was in a batch handed to
\* the save callback, the call in progress included.
TimesHanded(jid) ==
  Cardinality({ <<n, j>> \in (DOMAIN flushLog) \X (1..NumChats) :
                  j \in DOMAIN flushLog[n].batch /\ flushLog[n].batch[j] = jid })
  + Cardinality({ j \in DOMAIN pendingSave.batch :
                    pendingSave.batch[j].remoteJid = jid })

\* C32: over the interval saves and the final save of one call of
\* analyzeConversationsBatch no result is handed to the save callback
\* twice, only successful results are handed, and when the function has
\* returned every successful result has been handed exactly once.
C32_HandedExactlyOnce ==
  /\ \A c \in ChatIds : TimesHanded(c) <= 1
  /\ \A c \in ChatIds :
       TimesHanded(c) = 1 =>
         \E k \in DOMAIN results : results[k].remoteJid = c /\ Successful(results[k])
  /\ AnalysisReturned =>
       \A k \in DOMAIN results :
         Successful(results[k]) => TimesHanded(results[k].remoteJid) = 1

\* C32 witness: the function has returned after an interval save and a final
\* save, each of a batch of successful results, and a result was left out of
\* both because it was not successful.
C32_Witness ==
  /\ AnalysisReturned
  /\ \E n, m \in DOMAIN flushLog :
       /\ flushLog[n].site = "interval" /\ Len(flushLog[n].batch) > 0
       /\ flushLog[m].site = "final" /\ Len(flushLog[m].batch) > 0
  /\ \E k \in DOMAIN results : TimesHanded(results[k].remoteJid) = 0

\* The chat was loaded in this run and has no message.
ZeroMessages(data) ==
  /\ data.error = "unset"
  /\ ~data.fromCache
  /\ ~data.hasMessages

RolledBack == call.result.path = "rollback" \/ call.loop.txAborted

\* C34 (as claimed): whenever bulkInsertAnalysisResults returns, success
\* plus failed is the number of results it was given, and a call whose
\* transaction was rolled back reports success 0.
C34_CountsAddUp ==
  call.phase = "returned" =>
    /\ call.result.success + call.result.failed = call.n
    /\ RolledBack => call.result.success = 0

\* The sum of the success counts of the first n calls of the save callback.
RECURSIVE SavedBy(_)
SavedBy(n) == IF n = 0 THEN 0 ELSE SavedBy(n - 1) + flushLog[n].success

\* C35: at every point of a run totalSaved is the sum of the success counts
\* returned to the save callback so far (a call that threw adds nothing), it
\* is at most the number of successful analyses produced so far, and it is
\* the 'Saved to Database' figure of the summary.
C35_TotalSavedIsSumOfFlushes ==
  /\ totalSaved = SavedBy(Len(flushLog))
  /\ totalSaved <= Len(SuccessfulOf(results))
  /\ report.outcome \in {"noData", "success", "statsFailed"} =>
       report.totalSaved = totalSaved

\* C35 witness: the summary is printed after two saves that each returned a
\* success count.
C35_Witness ==
  /\ report.outcome = "success"
  /\ Cardinality({n \in DOMAIN flushLog : flushLog[n].success > 0}) >= 2
  /\ totalSaved >= 2

\* The step is a call of saveConversationsToCache that failed: a statement
\* rejected, no connection was obtained, or the ROLLBACK rejected.
CacheWriteFails ==
  /\ pc = "cacheSave"
  /\ Len(cacheLog') = Len(cacheLog) + 1
  /\ cacheLog'[Len(cacheLog')] \in {"writeFailed", "noConnection", "rollbackFails"}

\* C36 (as claimed): a call of saveConversationsToCache that fails leaves
\* "ConversationCache" without any row of the call, and processChatsBatch
\* still returns the conversations, so the run goes on to the analysis.
C36_CacheWriteFailureTolerated ==
  [][CacheWriteFails =>
       /\ cache' = cache
       /\ pc' = "processed"
       /\ conversationData' = conversationData]_vars

\* C37: a flush and a chunk never overlap.  While a batch is with the
\* callback no worker of a chunk is running and no result of a chunk is
\* waiting; while a worker runs no batch is with the callback; the step that
\* ends a flush records its return (committed, rolled back or thrown) in
\* flushLog; and a chunk is launched only from the top of the loop, with no
\* batch pending.
C37_FlushNeverOverlapsChunk ==
  /\ [](/\ (pc = "saving" <=> pendingSave # NoSave)
        /\ (pc = "saving" => inflight = {} /\ chunkRes = <<>>)
        /\ (inflight # {} => pendingSave = NoSave))
  /\ [][/\ (pc = "saving" =>
              /\ Len(flushLog') = Len(flushLog) + 1
              /\ flushLog'[Len(flushLog')].outcome \in {"commit", "rollback", "threw"}
              /\ inflight' = {})
        /\ ((pc # "analyzing" /\ pc' = "analyzing") =>
              /\ pc = "analyzeChunk"
              /\ pendingSave = NoSave
              /\ flushLog' = flushLog)]_vars

\* A chunk is in flight after an interval save that threw and before another
\* flush: the loop went on after the failed flush had returned.
C37_Witness ==
  /\ pc = "analyzing"
  /\ inflight # {}
  /\ Len(flushLog) = 1
  /\ flushLog[1].site = "interval"
  /\ flushLog[1].outcome = "threw"

\* C38: every client that bulkInsertAnalysisResults or
\* saveConversationsToCache obtains from the pool is released exactly once
\* before the call settles, on each of its paths (COMMIT with or without
\* rejected rows, abort after too many errors, ROLLBACK, rejected ROLLBACK);
\* a call that obtains no client releases none.  So after any sequence of
\* calls no client is checked out, and none was released twice.
C38_EveryClientReleasedOnce == checkedOut = 0

\* The run wrote the cache with a failing statement (rolled back), then
\* flushed twice: the interval save was rolled back after too many errors
\* or rejected, and the final save reached its COMMIT with a rejected row.
C38_Witness ==
  /\ checkedOut = 0
  /\ \E n \in DOMAIN cacheLog : cacheLog[n] = "writeFailed"
  /\ Len(flushLog) = 2
  /\ flushLog[1].outcome \in {"rollback", "threw"}
  /\ flushLog[2].outcome = "commit"
  /\ flushLog[2].failed > 0

\* The cache lookup of this run failed.
CacheReadFailed == Len(cacheLog) > 0 /\ cacheLog[1] = "readFailed"

\* C39: when the query of getCachedConversations fails, the lookup yields
\* an empty map: no chat is answered from the cache, every chat of the run
\* is sent to the loaders in its order, processChatsBatch goes on (the step
\* does not end the run) and returns one freshly loaded result per chat.
C39_CacheReadFailureMeansAllMisses ==
  /\ []((CacheReadFailed /\ pc \in {"cacheSave", "processed"}) =>
          /\ Len(conversationData) = Len(unanalyzedChats)
          /\ \A j \in DOMAIN conversationData :
               /\ ~conversationData[j].fromCache
               /\ conversationData[j].remoteJid = unanalyzedChats[j])
  /\ [][(pc = "cacheCheck" /\ CacheReadFailed') =>
          /\ chatsToProcess' = unanalyzedChats
          /\ conversationData' = <<>>
          /\ pc' = "loadChunk"
          /\ cache' = cache]_vars

\* processChatsBatch has returned after a failed lookup, and the chat that
\* has a row in the cache was loaded and rendered again.
C39_Witness ==
  /\ CacheReadFailed
  /\ pc = "processed"
  /\ \E j \in DOMAIN conversationData :
       /\ \E r \in cache : r.remoteJid = conversationData[j].remoteJid
       /\ ~conversationData[j].fromCache
       /\ conversationData[j].hasMessages

\* The process has ended: main exited after the report (status 0), or with
\* a fatal error (status 1).
Terminated == pc \in {"reported", "failed", "aborted"}

====
